---- MODULE Spec2Model ----
(***************************************************************************)
(* ConsumptionTaxManager (drugstore/utils/consumption_tax_manager.py) and  *)
(* the ConsumptionTax value type (drugstore/domain/models/                 *)
(* consumption_taxes.py) as a state machine.                               *)
(*                                                                         *)
(* Instants are integers on one axis (every datetime is a JST datetime),   *)
(* from MIN_CONSUMPTION_TAX_BEGIN to MAX_CONSUMPTION_TAX_END.  Rates are   *)
(* hundredths (Decimal("0.05") is 5).  Ids are naturals; uuid.uuid4() is   *)
(* the least id not in use.  The code compares ids only for equality, so   *)
(* the managed list is kept up to a renaming of its ids (Renumber); the    *)
(* record `last` keeps the lists of the latest call under the ids the call *)
(* itself saw.                                                             *)
(***************************************************************************)
EXTENDS Integers, Sequences, FiniteSets, TLC

\* ---------------------------------------------------------------- bounds
AxisLen == 4
WideAxisLen == 6
TriAxisLen == 3
LongAxisLen == 5
RoundAxisLen == 3
MergeAxisLen == 1
MergeLen == 4
MaxInput == 3
MaxLen == 8

\* ------------------------------------------------------------- constants
VARIABLES consumption_taxes, constructed, last, axis_end, rates
vars == <<consumption_taxes, constructed, last, axis_end, rates>>

\* datetime.min and datetime.max: the two ends of the axis
MIN_CONSUMPTION_TAX_BEGIN == 0
MAX_CONSUMPTION_TAX_END == axis_end
MIN_CONSUMPTION_TAX_RATE == 0
MAX_CONSUMPTION_TAX_RATE == 100

Instants == MIN_CONSUMPTION_TAX_BEGIN..MAX_CONSUMPTION_TAX_END
\* Decimal("0.05"), Decimal("0.10"), Decimal("0.15")
TwoRates == {5, 10}
ThreeRates == {5, 10, 15}
\* the rates a caller uses, fixed when the program starts
Rates == rates
Renewals == Rates \cup {MIN_CONSUMPTION_TAX_RATE - 1, MAX_CONSUMPTION_TAX_RATE}

\* ------------------------------------------------------ ConsumptionTax
validate_consumption_tax_rate(rate) ==
    MIN_CONSUMPTION_TAX_RATE <= rate /\ rate < MAX_CONSUMPTION_TAX_RATE

\* ConsumptionTax.__init__: TRUE iff no ValueError is raised
ConsumptionTaxInit(begin, end, rate) ==
    /\ ~(begin < MIN_CONSUMPTION_TAX_BEGIN \/ MAX_CONSUMPTION_TAX_END <= begin)
    /\ ~(end <= MIN_CONSUMPTION_TAX_BEGIN \/ MAX_CONSUMPTION_TAX_END < end)
    /\ ~(end <= begin)
    /\ validate_consumption_tax_rate(rate)

ConsumptionTax(id, begin, end, rate) ==
    [id |-> id, begin |-> begin, end |-> end, rate |-> rate]

\* mutant: the ends are not compared
contains_begin_only(self, other) ==
    IF other.begin < self.begin THEN FALSE
    ELSE TRUE

contains(self, other) ==
    IF other.begin < self.begin THEN FALSE
    ELSE IF self.end < other.end THEN FALSE
    ELSE TRUE

\* every ConsumptionTax a caller can build with the given id
Taxes(id) ==
    {ConsumptionTax(id, b, e, r) : <<b, e, r>> \in
        {x \in Instants \X Instants \X Rates : ConsumptionTaxInit(x[1], x[2], x[3])}}

IdsOf(taxes) == {taxes[i].id : i \in 1..Len(taxes)}

\* uuid.uuid4(): an id that is not in use
uuid4(used) ==
    CHOOSE i \in 1..(Cardinality(used) + 1) :
        i \notin used /\ \A j \in 1..(i - 1) : j \in used

\* del taxes[index] (index counted from 0)
Del(taxes, index) ==
    SubSeq(taxes, 1, index) \o SubSeq(taxes, index + 2, Len(taxes))

\* taxes.insert(index, tax) (index counted from 0)
Insert(taxes, index, tax) ==
    SubSeq(taxes, 1, index) \o <<tax>> \o SubSeq(taxes, index + 1, Len(taxes))

\* ------------------------------------------------------------ helpers
\* mutant: only a gap between neighbours is reported, an overlap is not
ensure_gaps_only(taxes) ==
    IF Len(taxes) = 1 THEN TRUE
    ELSE \A index \in 1..(Len(taxes) - 1) :
            taxes[index + 1].begin <= taxes[index].end

ensure_consumption_tax_periods_are_continuous(taxes) ==
    IF Len(taxes) = 1 THEN TRUE
    ELSE \A index \in 1..(Len(taxes) - 1) :
            taxes[index + 1].begin = taxes[index].end

\* list.sort(key=attrgetter("begin")): stable, ascending
RECURSIVE SortByBegin(_)
SortByBegin(taxes) ==
    IF Len(taxes) <= 1 THEN taxes
    ELSE LET sorted == SortByBegin(SubSeq(taxes, 1, Len(taxes) - 1))
             tax == taxes[Len(taxes)]
             pos == Cardinality({i \in 1..Len(sorted) : sorted[i].begin <= tax.begin})
         IN  Insert(sorted, pos, tax)

\* bisect.bisect_left(taxes, x, key=attrgetter("begin"))
RECURSIVE BisectLoop(_, _, _, _)
BisectLoop(taxes, x, lo, hi) ==
    IF lo < hi
    THEN LET mid == (lo + hi) \div 2
         IN  IF taxes[mid + 1].begin < x
             THEN BisectLoop(taxes, x, mid + 1, hi)
             ELSE BisectLoop(taxes, x, lo, mid)
    ELSE lo

bisect_left(taxes, x) == BisectLoop(taxes, x, 0, Len(taxes))

\* index (from 0) of the first tax of the list that contains tax, or -1
retrieve_contained_consumption_tax_index(taxes, tax) ==
    IF \E i \in 1..Len(taxes) : contains(taxes[i], tax)
    THEN (CHOOSE i \in 1..Len(taxes) :
            /\ contains(taxes[i], tax)
            /\ \A j \in 1..(i - 1) : ~contains(taxes[j], tax)) - 1
    ELSE -1

\* mutant: a fragment is built on the left when the two begins are equal too
LeftFragmentOrEqual(container, addition) == container.begin <= addition.begin

\* the two tests that decide which fragments of the container are built
LeftFragment(container, addition) == container.begin < addition.begin

RightFragment(container, addition) == addition.end < container.end

\* mutant: a fragment of the container takes the addition's rate
FragmentRateOfAddition(container, addition) == addition.rate

\* the rate given to the fragments of the container
FragmentRate(container, addition) == container.rate

\* the ConsumptionTax constructor calls of the included branch: TRUE iff
\* none of them raises ValueError
IncludedFragmentsInit(container, addition) ==
    /\ LeftFragment(container, addition) =>
        ConsumptionTaxInit(container.begin, addition.begin, container.rate)
    /\ RightFragment(container, addition) =>
        ConsumptionTaxInit(addition.end, container.end, container.rate)

\* mutant: the insertion index is not advanced, so the fragments that follow
\* the first one end up in reverse order
generate_included_addition_reversed(taxes, index, addition) ==
    LET container == taxes[index + 1]
        used == IdsOf(taxes) \cup {addition.id}
        leftId == uuid4(used)
        rightId == uuid4(used \cup {leftId})
        left == IF container.begin < addition.begin
                THEN <<ConsumptionTax(leftId, container.begin, addition.begin,
                                      container.rate)>>
                ELSE <<>>
        right == IF addition.end < container.end
                 THEN <<ConsumptionTax(rightId, addition.end, container.end,
                                       container.rate)>>
                 ELSE <<>>
        new_taxes == left \o <<addition>> \o right
        reversed == <<new_taxes[1]>> \o
                    [i \in 1..(Len(new_taxes) - 1) |->
                        new_taxes[Len(new_taxes) + 1 - i]]
    IN  SubSeq(taxes, 1, index) \o reversed \o SubSeq(taxes, index + 2, Len(taxes))

generate_consumption_taxes_for_included_addition(taxes, index, addition) ==
    LET container == taxes[index + 1]
        used == IdsOf(taxes) \cup {addition.id}
        leftId == uuid4(used)
        rightId == uuid4(used \cup {leftId})
        left == IF LeftFragment(container, addition)
                THEN <<ConsumptionTax(leftId, container.begin, addition.begin,
                                      FragmentRate(container, addition))>>
                ELSE <<>>
        right == IF RightFragment(container, addition)
                 THEN <<ConsumptionTax(rightId, addition.end, container.end,
                                       FragmentRate(container, addition))>>
                 ELSE <<>>
        new_taxes == left \o <<addition>> \o right
    IN  SubSeq(taxes, 1, index) \o new_taxes \o SubSeq(taxes, index + 2, Len(taxes))

OverlappedPredecessorGuard(index) == 1 < index

generate_consumption_taxes_for_overlapped_addition(taxes0, addition) ==
    LET filtered == SelectSeq(taxes0, LAMBDA t : ~contains(addition, t))
        index == bisect_left(filtered, addition.begin)
        t1 == Insert(filtered, index, addition)
        t2 == IF OverlappedPredecessorGuard(index)
              THEN [t1 EXCEPT ![index].end = addition.begin]
              ELSE t1
        t3 == IF index < Len(t2) - 1
              THEN [t2 EXCEPT ![index + 2].begin = addition.end]
              ELSE t2
        t4 == [t3 EXCEPT ![1].begin = MIN_CONSUMPTION_TAX_BEGIN]
    IN  [t4 EXCEPT ![Len(t4)].end = MAX_CONSUMPTION_TAX_END]

RECURSIVE MargeLoop(_, _, _)
MargeLoop(taxes, index, number_of_taxes) ==
    IF index < number_of_taxes
    THEN IF taxes[index].rate = taxes[index + 1].rate
         THEN MargeLoop(Del([taxes EXCEPT ![index].end = taxes[index + 1].end], index),
                        index, number_of_taxes - 1)
         ELSE MargeLoop(taxes, index + 1, number_of_taxes)
    ELSE taxes

\* mutant: the later interval is deleted and its end is lost
RECURSIVE MargeLoopKeepEnd(_, _, _)
MargeLoopKeepEnd(taxes, index, number_of_taxes) ==
    IF index < number_of_taxes
    THEN IF taxes[index].rate = taxes[index + 1].rate
         THEN MargeLoopKeepEnd(Del(taxes, index), index, number_of_taxes - 1)
         ELSE MargeLoopKeepEnd(taxes, index + 1, number_of_taxes)
    ELSE taxes

marge_keep_end(taxes) ==
    IF Len(taxes) <= 1 THEN taxes ELSE MargeLoopKeepEnd(taxes, 1, Len(taxes))

\* mutant: the index advances after a merge as well, so the third interval
\* of a run of equal rates is never compared with the first
RECURSIVE MargeLoopAdvancing(_, _, _)
MargeLoopAdvancing(taxes, index, number_of_taxes) ==
    IF index < number_of_taxes
    THEN IF taxes[index].rate = taxes[index + 1].rate
         THEN MargeLoopAdvancing(
                Del([taxes EXCEPT ![index].end = taxes[index + 1].end], index),
                index + 1, number_of_taxes - 1)
         ELSE MargeLoopAdvancing(taxes, index + 1, number_of_taxes)
    ELSE taxes

marge_advancing(taxes) ==
    IF Len(taxes) <= 1 THEN taxes ELSE MargeLoopAdvancing(taxes, 1, Len(taxes))

marge_consumption_tax_period(taxes) ==
    IF Len(taxes) <= 1 THEN taxes ELSE MargeLoop(taxes, 1, Len(taxes))

\* ------------------------------------------------------------ state
NoTax == ConsumptionTax(0, 0, 0, 0)

\* ids are opaque: the same list with its ids renamed 1, 2, ... by position
Renumber(taxes) == [i \in 1..Len(taxes) |-> [taxes[i] EXCEPT !.id = i]]

\* `last`: the latest call, its arguments, the list before it, the list it
\* built before the merge pass, the list it stored, and what it returned
\* `prior` is the call before the latest one, kept only when `chain` is set
NoCall ==
    [op |-> "none", outcome |-> "ok", before |-> <<>>, addition |-> NoTax,
     result |-> <<>>]

Idle ==
    [detail |-> TRUE, op |-> "none", outcome |-> "ok", input |-> <<>>,
     before |-> <<>>, addition |-> NoTax, id |-> 0, renewal |-> 0, dt |-> 0,
     unmerged |-> <<>>, result |-> <<>>, value |-> 0,
     chain |-> FALSE, prior |-> NoCall]

\* on the longer axis only the outcome of the latest call is kept
Brief == [Idle EXCEPT !.detail = FALSE]

\* two calls in a row: the latest call with the one before it
Chained ==
    [Idle EXCEPT !.chain = TRUE]

Log(call) ==
    IF ~last.detail
    THEN [Brief EXCEPT !.outcome = call.outcome]
    ELSE IF last.chain
         THEN [call EXCEPT !.chain = TRUE,
                           !.prior = [op |-> last.op, outcome |-> last.outcome,
                                      before |-> last.before,
                                      addition |-> last.addition,
                                      result |-> last.result]]
         ELSE call

Init ==
    /\ consumption_taxes = <<>>
    /\ constructed = FALSE
    /\ last = Idle
    /\ axis_end = MIN_CONSUMPTION_TAX_BEGIN + AxisLen
    /\ rates = TwoRates

WideInit ==
    /\ consumption_taxes = <<>>
    /\ constructed = FALSE
    /\ last = Brief
    /\ axis_end = MIN_CONSUMPTION_TAX_BEGIN + WideAxisLen
    /\ rates = TwoRates

\* an axis of middle length, the calls recorded in full
LongInit ==
    /\ consumption_taxes = <<>>
    /\ constructed = FALSE
    /\ last = Idle
    /\ axis_end = MIN_CONSUMPTION_TAX_BEGIN + LongAxisLen
    /\ rates = TwoRates

\* the calls recorded in pairs
RoundInit ==
    /\ consumption_taxes = <<>>
    /\ constructed = FALSE
    /\ last = Chained
    /\ axis_end = MIN_CONSUMPTION_TAX_BEGIN + RoundAxisLen
    /\ rates = TwoRates

\* a shorter axis with a third rate
TriInit ==
    /\ consumption_taxes = <<>>
    /\ constructed = FALSE
    /\ last = Idle
    /\ axis_end = MIN_CONSUMPTION_TAX_BEGIN + TriAxisLen
    /\ rates = ThreeRates

\* the lists a caller can hand to the constructor: each element built by
\* ConsumptionTax.__init__, ids distinct, any order
Inputs(n) == [1..n -> Taxes(0)]

\* ConsumptionTaxManager.__init__
ConstructOutcome(input) ==
    IF Len(input) = 0 THEN "EmptyInput"
    ELSE IF ~ensure_consumption_tax_periods_are_continuous(SortByBegin(input))
         THEN "Discontinuous"
         ELSE "ok"

\* mutant: the two ends are clamped before the sort, on the caller's first
\* and last element
ConstructListClampBeforeSort(input) ==
    LET t1 == [input EXCEPT ![1].begin = MIN_CONSUMPTION_TAX_BEGIN]
    IN  SortByBegin([t1 EXCEPT ![Len(t1)].end = MAX_CONSUMPTION_TAX_END])

\* mutant: the list is stored in the caller's order
ConstructListUnsorted(input) ==
    LET t1 == [input EXCEPT ![1].begin = MIN_CONSUMPTION_TAX_BEGIN]
    IN  [t1 EXCEPT ![Len(t1)].end = MAX_CONSUMPTION_TAX_END]

ConstructList(input) ==
    LET sorted == SortByBegin(input)
        t1 == [sorted EXCEPT ![1].begin = MIN_CONSUMPTION_TAX_BEGIN]
    IN  [t1 EXCEPT ![Len(t1)].end = MAX_CONSUMPTION_TAX_END]

\* one constructor call per manager: a failed call leaves no manager
Construct ==
    /\ ~constructed
    /\ last.op = "none"
    /\ \E n \in 0..MaxInput : \E s \in Inputs(n) :
        LET input == Renumber(s)
            outcome == ConstructOutcome(input)
            result == IF outcome = "ok" THEN ConstructList(input) ELSE <<>>
        IN  /\ last' = Log([Idle EXCEPT !.op = "construct", !.outcome = outcome,
                                    !.input = input, !.result = result])
            /\ consumption_taxes' = Renumber(result)
            /\ constructed' = (outcome = "ok")
    /\ UNCHANGED <<axis_end, rates>>

\* ConsumptionTaxManager.consumption_tax_rate
\* mutant: the upper end of the axis is not rejected
MaxEndCheckBeyond(dt) == MAX_CONSUMPTION_TAX_END < dt

MaxEndCheck(dt) == dt = MAX_CONSUMPTION_TAX_END

RateOutcome(taxes, dt) ==
    IF MaxEndCheck(dt) THEN "Unmanaged"
    ELSE IF \E i \in 1..Len(taxes) : taxes[i].begin <= dt /\ dt < taxes[i].end
         THEN "ok"
         ELSE "InternalInvariantViolation"

RateValue(taxes, dt) ==
    LET i == CHOOSE i \in 1..Len(taxes) :
                /\ taxes[i].begin <= dt /\ dt < taxes[i].end
                /\ \A j \in 1..(i - 1) : ~(taxes[j].begin <= dt /\ dt < taxes[j].end)
    IN  taxes[i].rate

consumption_tax_rate ==
    /\ constructed
    /\ \E dt \in Instants :
        LET outcome == RateOutcome(consumption_taxes, dt)
        IN  last' = Log([Idle EXCEPT !.op = "rate_at", !.outcome = outcome,
                                 !.before = consumption_taxes, !.dt = dt,
                                 !.unmerged = consumption_taxes,
                                 !.result = consumption_taxes,
                                 !.value = IF outcome = "ok"
                                           THEN RateValue(consumption_taxes, dt)
                                           ELSE 0])
    /\ UNCHANGED <<consumption_taxes, constructed, axis_end, rates>>

\* ConsumptionTaxManager.add_consumption_tax
AddUnmerged(taxes, addition) ==
    LET index == retrieve_contained_consumption_tax_index(taxes, addition)
    IN  IF 0 <= index
        THEN generate_consumption_taxes_for_included_addition(taxes, index, addition)
        ELSE generate_consumption_taxes_for_overlapped_addition(taxes, addition)

\* "InvalidFragment" is the ValueError of a fragment's constructor call,
\* raised before the list is touched
AddOutcome(taxes, addition) ==
    LET index == retrieve_contained_consumption_tax_index(taxes, addition)
    IN  IF 0 <= index /\ ~IncludedFragmentsInit(taxes[index + 1], addition)
        THEN "InvalidFragment"
        ELSE "ok"

add_consumption_tax ==
    /\ constructed
    /\ \E addition \in Taxes(uuid4(IdsOf(consumption_taxes))) :
        LET outcome == AddOutcome(consumption_taxes, addition)
            unmerged == IF outcome = "ok"
                        THEN AddUnmerged(consumption_taxes, addition)
                        ELSE consumption_taxes
            result == IF outcome = "ok"
                      THEN marge_consumption_tax_period(unmerged)
                      ELSE consumption_taxes
        IN  /\ Len(unmerged) <= MaxLen
            /\ consumption_taxes' = Renumber(result)
            /\ last' = Log([Idle EXCEPT !.op = "insert", !.outcome = outcome,
                                    !.before = consumption_taxes,
                                    !.addition = addition, !.unmerged = unmerged,
                                    !.result = result])
    /\ UNCHANGED <<constructed, axis_end, rates>>

\* mutant: an id that matches nothing selects the first tax
IndexOfIdDefaultFirst(taxes, id) ==
    IF \E i \in 1..Len(taxes) : taxes[i].id = id
    THEN (CHOOSE i \in 1..Len(taxes) :
            /\ taxes[i].id = id
            /\ \A j \in 1..(i - 1) : taxes[j].id # id) - 1
    ELSE 0

\* index (from 0) of the first tax whose id is id, Len(taxes) when there is none
IndexOfId(taxes, id) ==
    IF \E i \in 1..Len(taxes) : taxes[i].id = id
    THEN (CHOOSE i \in 1..Len(taxes) :
            /\ taxes[i].id = id
            /\ \A j \in 1..(i - 1) : taxes[j].id # id) - 1
    ELSE Len(taxes)

\* ConsumptionTaxManager.modify_consumption_tax_rate
\* mutant: the id is looked up before the rate is checked
ModifyOutcomeLookupFirst(taxes, id, renewal) ==
    IF IndexOfId(taxes, id) = Len(taxes) THEN "NotFound"
    ELSE IF ~ConsumptionTaxInit(MIN_CONSUMPTION_TAX_BEGIN,
                                MAX_CONSUMPTION_TAX_END, renewal)
         THEN "InvalidRate"
         ELSE "ok"

ModifyOutcome(taxes, id, renewal) ==
    IF ~ConsumptionTaxInit(MIN_CONSUMPTION_TAX_BEGIN, MAX_CONSUMPTION_TAX_END, renewal)
    THEN "InvalidRate"
    ELSE IF IndexOfId(taxes, id) = Len(taxes) THEN "NotFound"
         ELSE "ok"

\* mutant: every tax that carries the target's rate is changed
ModifyUnmergedByRate(taxes, id, renewal) ==
    LET target == taxes[IndexOfId(taxes, id) + 1]
    IN  [i \in 1..Len(taxes) |->
            IF taxes[i].rate = target.rate
            THEN [taxes[i] EXCEPT !.rate = renewal]
            ELSE taxes[i]]

ModifyUnmerged(taxes, id, renewal) ==
    [taxes EXCEPT ![IndexOfId(taxes, id) + 1].rate = renewal]

modify_consumption_tax_rate ==
    /\ constructed
    /\ \E id \in 1..(Len(consumption_taxes) + 1), renewal \in Renewals :
        LET outcome == ModifyOutcome(consumption_taxes, id, renewal)
            unmerged == IF outcome = "ok"
                        THEN ModifyUnmerged(consumption_taxes, id, renewal)
                        ELSE consumption_taxes
            result == IF outcome = "ok"
                      THEN marge_consumption_tax_period(unmerged)
                      ELSE consumption_taxes
        IN  /\ consumption_taxes' = Renumber(result)
            /\ last' = Log([Idle EXCEPT !.op = "modify_rate", !.outcome = outcome,
                                    !.before = consumption_taxes, !.id = id,
                                    !.renewal = renewal, !.unmerged = unmerged,
                                    !.result = result])
    /\ UNCHANGED <<constructed, axis_end, rates>>

\* ConsumptionTaxManager.remove_consumption_tax
\* mutant: the id is looked up before the size of the list is checked
RemoveOutcomeLookupFirst(taxes, id) ==
    IF Len(taxes) <= IndexOfId(taxes, id) THEN "NotFound"
    ELSE IF Len(taxes) <= 1 THEN "CannotEmpty"
         ELSE "ok"

\* mutant: an id that matches nothing is not reported
RemoveOutcomeNoLookup(taxes, id) ==
    IF Len(taxes) <= 1 THEN "CannotEmpty" ELSE "ok"

RemoveOutcome(taxes, id) ==
    IF Len(taxes) <= 1 THEN "CannotEmpty"
    ELSE IF Len(taxes) <= IndexOfId(taxes, id) THEN "NotFound"
         ELSE "ok"

\* mutant: removing the last interval leaves the new last end alone
RemoveUnmergedKeepEnd(taxes, id) ==
    LET number_of_taxes == Len(taxes)
        index == IndexOfId(taxes, id)
        t1 == IF 0 < index /\ 1 < number_of_taxes - index
              THEN [taxes EXCEPT ![index + 2].begin = taxes[index].end]
              ELSE taxes
        t2 == IF index = 0
              THEN [t1 EXCEPT ![2].begin = MIN_CONSUMPTION_TAX_BEGIN]
              ELSE t1
    IN  Del(t2, index)

\* mutant: removing the first interval leaves the new first begin alone
RemoveUnmergedKeepBegin(taxes, id) ==
    LET number_of_taxes == Len(taxes)
        index == IndexOfId(taxes, id)
        t1 == IF 0 < index /\ 1 < number_of_taxes - index
              THEN [taxes EXCEPT ![index + 2].begin = taxes[index].end]
              ELSE taxes
        t3 == IF index = number_of_taxes - 1
              THEN [t1 EXCEPT ![index].end = MAX_CONSUMPTION_TAX_END]
              ELSE t1
    IN  Del(t3, index)

RemoveUnmerged(taxes, id) ==
    LET number_of_taxes == Len(taxes)
        index == IndexOfId(taxes, id)
        t1 == IF 0 < index /\ 1 < number_of_taxes - index
              THEN [taxes EXCEPT ![index + 2].begin = taxes[index].end]
              ELSE taxes
        t2 == IF index = 0
              THEN [t1 EXCEPT ![2].begin = MIN_CONSUMPTION_TAX_BEGIN]
              ELSE t1
        t3 == IF index = number_of_taxes - 1
              THEN [t2 EXCEPT ![index].end = MAX_CONSUMPTION_TAX_END]
              ELSE t2
    IN  Del(t3, index)

remove_consumption_tax ==
    /\ constructed
    /\ \E id \in 1..(Len(consumption_taxes) + 1) :
        LET outcome == RemoveOutcome(consumption_taxes, id)
            unmerged == IF outcome = "ok"
                        THEN RemoveUnmerged(consumption_taxes, id)
                        ELSE consumption_taxes
            result == IF outcome = "ok"
                      THEN marge_consumption_tax_period(unmerged)
                      ELSE consumption_taxes
        IN  /\ consumption_taxes' = Renumber(result)
            /\ last' = Log([Idle EXCEPT !.op = "remove", !.outcome = outcome,
                                    !.before = consumption_taxes, !.id = id,
                                    !.unmerged = unmerged, !.result = result])
    /\ UNCHANGED <<constructed, axis_end, rates>>

Next ==
    \/ Construct
    \/ consumption_tax_rate
    \/ add_consumption_tax
    \/ modify_consumption_tax_rate
    \/ remove_consumption_tax

Spec == Init /\ [][Next]_vars

\* the same program on a longer axis
WideSpec == WideInit /\ [][Next]_vars

\* the same program with three rates
TriSpec == TriInit /\ [][Next]_vars

\* the same program on an axis of middle length
LongSpec == LongInit /\ [][Next]_vars

\* the same program, each call recorded with the call before it
RoundSpec == RoundInit /\ [][Next]_vars

\* ------------------------------------------- the merge pass on any list
\* a ConsumptionTax whose begin and end have been overwritten in place
AnyTaxes ==
    {ConsumptionTax(0, b, e, r) : <<b, e, r>> \in Instants \X Instants \X Rates}

MergeInit ==
    /\ constructed = FALSE
    /\ last = Idle
    /\ axis_end = MIN_CONSUMPTION_TAX_BEGIN + MergeAxisLen
    /\ rates = TwoRates
    /\ \E n \in 0..MergeLen : \E s \in [1..n -> AnyTaxes] :
        consumption_taxes = Renumber(s)

\* marge_consumption_tax_period(taxes) on the list at hand
Marge ==
    LET result == marge_consumption_tax_period(consumption_taxes)
    IN  /\ last' = [Idle EXCEPT !.op = "merge", !.before = consumption_taxes,
                                !.unmerged = consumption_taxes,
                                !.result = result]
        /\ consumption_taxes' = result
        /\ UNCHANGED <<constructed, axis_end, rates>>

MergeSpec == MergeInit /\ [][Marge]_vars
\* ------------------------------------------------------------ claims
Gapless(taxes) ==
    \A i \in 1..(Len(taxes) - 1) : taxes[i].end = taxes[i + 1].begin

NoAdjacentEqual(taxes) ==
    \A i \in 1..(Len(taxes) - 1) : taxes[i].rate # taxes[i + 1].rate

Span(tax) == <<tax.begin, tax.end, tax.rate>>

Mutators == {"insert", "modify_rate", "remove"}

\* C1: in every state reached by a successful construct and any sequence of
\* insert, modify_rate and remove calls, each managed interval ends where
\* the next one begins.
C1_Gapless == constructed => Gapless(consumption_taxes)

\* C2: in every state with a manager the first managed interval begins at
\* MIN_INSTANT and the last one ends at MAX_INSTANT.
C2_Sentinels ==
    constructed =>
        /\ Len(consumption_taxes) >= 1
        /\ consumption_taxes[1].begin = MIN_CONSUMPTION_TAX_BEGIN
        /\ consumption_taxes[Len(consumption_taxes)].end = MAX_CONSUMPTION_TAX_END

\* C2 witness: the first interval was removed and its successor took over MIN
C2_Witness ==
    /\ last.op = "remove" /\ last.outcome = "ok"
    /\ last.id = last.before[1].id
    /\ last.before[2].begin # MIN_CONSUMPTION_TAX_BEGIN
    /\ consumption_taxes[1].begin = MIN_CONSUMPTION_TAX_BEGIN

\* C3: after every successful insert, modify_rate or remove no two adjacent
\* managed intervals have the same rate.
C3_MergedAfterMutation ==
    (last.op \in Mutators /\ last.outcome = "ok")
        => NoAdjacentEqual(consumption_taxes)

\* C3 witness: the call produced adjacent equal rates and the merge pass
\* collapsed them
C3_Witness ==
    /\ last.op \in Mutators /\ last.outcome = "ok"
    /\ ~NoAdjacentEqual(last.unmerged)
    /\ Len(last.result) < Len(last.unmerged)
    /\ NoAdjacentEqual(consumption_taxes)

\* C4 (as claimed): immediately after every successful construct no two
\* adjacent managed intervals have the same rate.
C4_ConstructCanonical ==
    (last.op = "construct" /\ last.outcome = "ok")
        => NoAdjacentEqual(consumption_taxes)

\* two intervals of the input that are neighbours in time and carry one rate
InputHasEqualNeighbours(input) ==
    \E i, j \in 1..Len(input) :
        /\ i # j
        /\ input[i].end = input[j].begin
        /\ input[i].rate = input[j].rate

\* C4 (amended): a successful construct stores the input unmerged; the
\* managed list has as many intervals as the input, and two adjacent managed
\* intervals have the same rate exactly when two neighbouring intervals of
\* the input do.
C4_ConstructKeepsInputRates ==
    (last.op = "construct" /\ last.outcome = "ok") =>
        /\ Len(consumption_taxes) = Len(last.input)
        /\ NoAdjacentEqual(consumption_taxes)
            <=> ~InputHasEqualNeighbours(last.input)

\* C4 witness: a continuous input with two equal-rate neighbours was accepted
C4_Witness ==
    /\ last.op = "construct" /\ last.outcome = "ok"
    /\ InputHasEqualNeighbours(last.input)
    /\ ~NoAdjacentEqual(consumption_taxes)

\* C5: for an instant t with MIN_INSTANT <= t < MAX_INSTANT, rate_at(t)
\* returns the rate of the managed interval with begin <= t < end and leaves
\* the list alone; at an interval's begin it returns that interval's rate,
\* at an interval's end the next interval's rate, at MIN_INSTANT the first
\* interval's rate.
C5_RateAt ==
    (last.op = "rate_at" /\ last.dt # MAX_CONSUMPTION_TAX_END) =>
        /\ last.outcome = "ok"
        /\ consumption_taxes = last.before
        /\ \A i \in 1..Len(last.before) :
            /\ (last.before[i].begin <= last.dt /\ last.dt < last.before[i].end)
                => last.value = last.before[i].rate
            /\ last.before[i].begin = last.dt
                => last.value = last.before[i].rate
            /\ (i < Len(last.before) /\ last.before[i].end = last.dt)
                => last.value = last.before[i + 1].rate
        /\ last.dt = MIN_CONSUMPTION_TAX_BEGIN
            => last.value = last.before[1].rate

\* C6: rate_at never ends in InternalInvariantViolation: in every state with
\* a manager every instant t with MIN_INSTANT <= t < MAX_INSTANT lies in
\* some managed interval.
C6_Covered ==
    /\ last.outcome # "InternalInvariantViolation"
    /\ constructed =>
        \A t \in MIN_CONSUMPTION_TAX_BEGIN..(MAX_CONSUMPTION_TAX_END - 1) :
            \E i \in 1..Len(consumption_taxes) :
                consumption_taxes[i].begin <= t /\ t < consumption_taxes[i].end

\* C7: rate_at(MAX_INSTANT) fails with Unmanaged in every state and leaves
\* the list unchanged.
C7_MaxUnmanaged ==
    (last.op = "rate_at" /\ last.dt = MAX_CONSUMPTION_TAX_END) =>
        /\ last.outcome = "Unmanaged"
        /\ consumption_taxes = last.before

\* C7 witness: MAX_INSTANT was queried on a list whose last interval ends there
C7_Witness ==
    /\ last.op = "rate_at" /\ last.dt = MAX_CONSUMPTION_TAX_END
    /\ Len(last.before) >= 2
    /\ last.before[Len(last.before)].end = MAX_CONSUMPTION_TAX_END
    /\ last.outcome = "Unmanaged"
\* self covers other, both ends included
Covers(self, other) == self.begin <= other.begin /\ other.end <= self.end

\* C8: when no managed interval contains the addition, insert removes exactly
\* the managed intervals that lie inside the addition, puts the addition at
\* its begin-ordered position and, before the merge pass, the interval right
\* before the addition ends at addition.begin, the interval right after it
\* begins at addition.end, and every other interval is unchanged.
C8_OverlappedInsert ==
    (/\ last.op = "insert"
     /\ \A i \in 1..Len(last.before) : ~Covers(last.before[i], last.addition)) =>
        LET a == last.addition
            u == last.unmerged
            kept == SelectSeq(last.before, LAMBDA t : ~Covers(a, t))
        IN  /\ Len(u) = Len(kept) + 1
            /\ \E k \in 1..Len(u) :
                /\ u[k].id = a.id
                /\ Span(u[k]) = Span(a)
                /\ k > 1 => u[k - 1].end = a.begin
                /\ k < Len(u) => u[k + 1].begin = a.end
                /\ \A j \in 1..Len(kept) :
                    LET x == IF j < k THEN u[j] ELSE u[j + 1]
                    IN  /\ j < k <=> kept[j].begin < a.begin
                        /\ x.id = kept[j].id
                        /\ x.rate = kept[j].rate
                        /\ j # k - 1 => x.end = kept[j].end
                        /\ j # k => x.begin = kept[j].begin

\* C9: when a managed interval e contains the addition (the first such
\* interval of the list), insert replaces e, at its position and in this
\* order, by [e.begin, addition.begin) at e.rate if e.begin < addition.begin,
\* the addition itself, and [addition.end, e.end) at e.rate if
\* addition.end < e.end; every other interval keeps its fields and its place
\* (the list before the merge pass).
C9_IncludedInsert ==
    (/\ last.op = "insert"
     /\ \E i \in 1..Len(last.before) : Covers(last.before[i], last.addition)) =>
        LET a == last.addition
            u == last.unmerged
            b == last.before
            i == CHOOSE i \in 1..Len(b) :
                    /\ Covers(b[i], a)
                    /\ \A j \in 1..(i - 1) : ~Covers(b[j], a)
            e == b[i]
            nl == IF e.begin < a.begin THEN 1 ELSE 0
            nr == IF a.end < e.end THEN 1 ELSE 0
        IN  /\ Len(u) = Len(b) + nl + nr
            /\ \A j \in 1..(i - 1) : u[j] = b[j]
            /\ \A j \in (i + 1)..Len(b) : u[j + nl + nr] = b[j]
            /\ nl = 1 => Span(u[i]) = <<e.begin, a.begin, e.rate>>
            /\ u[i + nl] = a
            /\ nr = 1 => Span(u[i + nl + 1]) = <<a.end, e.end, e.rate>>

\* C9 witness: the addition lay strictly inside e, which was split in three
C9_Witness ==
    /\ last.op = "insert"
    /\ Len(last.unmerged) = Len(last.before) + 2
    /\ \E i \in 1..Len(last.before) :
        /\ last.before[i].begin < last.addition.begin
        /\ last.addition.end < last.before[i].end
        /\ last.unmerged[i + 1] = last.addition

\* input[j] is the interval that follows input[i] in ascending begin order
NextByBegin(input, i, j) ==
    /\ input[i].begin < input[j].begin
    /\ \A k \in 1..Len(input) :
        ~(input[i].begin < input[k].begin /\ input[k].begin < input[j].begin)

\* in ascending begin order some interval does not end where the next begins
BrokenInBeginOrder(input) ==
    \/ \E i, j \in 1..Len(input) : i # j /\ input[i].begin = input[j].begin
    \/ \E i, j \in 1..Len(input) :
        NextByBegin(input, i, j) /\ input[i].end # input[j].begin

\* C10: construct fails with EmptyInput on an empty list and with
\* Discontinuous when, in ascending begin order, some interval does not end
\* where the next one begins; in both cases there is no manager.
C10_ConstructRejects ==
    last.op = "construct" =>
        /\ Len(last.input) = 0 => last.outcome = "EmptyInput"
        /\ (Len(last.input) > 0 /\ BrokenInBeginOrder(last.input))
            => last.outcome = "Discontinuous"
        /\ last.outcome \in {"EmptyInput", "Discontinuous"}
            => (~constructed /\ consumption_taxes = <<>>)

\* C10 witness: an input whose second interval begins one instant before the
\* first one ends was rejected
C10_Witness ==
    /\ last.op = "construct" /\ last.outcome = "Discontinuous" /\ ~constructed
    /\ \E i, j \in 1..Len(last.input) :
        /\ NextByBegin(last.input, i, j)
        /\ last.input[j].begin = last.input[i].end - 1

\* the rearrangements of a list of n elements
Perms(n) ==
    {p \in [1..n -> 1..n] : \A i, j \in 1..n : i # j => p[i] # p[j]}

\* place of input[i] in ascending begin order
RankByBegin(input, i) ==
    1 + Cardinality({j \in 1..Len(input) : input[j].begin < input[i].begin})

Spans(taxes) == [i \in 1..Len(taxes) |-> Span(taxes[i])]

\* C11: construct succeeds on every permutation of a non-empty list whose
\* begin-sorted order is continuous, and every permutation gives the same
\* managed list: the input intervals in ascending begin order, the first
\* begin set to MIN_INSTANT and the last end to MAX_INSTANT, every other
\* boundary, the rates, the ids and the number of elements unchanged.
C11_ConstructAnyOrder ==
    (/\ last.op = "construct"
     /\ Len(last.input) > 0
     /\ ~BrokenInBeginOrder(last.input)) =>
        LET input == last.input
            n == Len(input)
        IN  /\ last.outcome = "ok" /\ constructed
            /\ Len(last.result) = n
            /\ Spans(consumption_taxes) = Spans(last.result)
            /\ \A i \in 1..n :
                LET k == RankByBegin(input, i)
                    x == last.result[k]
                IN  /\ x.id = input[i].id
                    /\ x.rate = input[i].rate
                    /\ x.begin = IF k = 1 THEN MIN_CONSUMPTION_TAX_BEGIN
                                 ELSE input[i].begin
                    /\ x.end = IF k = n THEN MAX_CONSUMPTION_TAX_END
                               ELSE input[i].end
            /\ \A p \in Perms(n) :
                LET other == [k \in 1..n |-> input[p[k]]]
                IN  /\ ConstructOutcome(other) = "ok"
                    /\ ConstructList(other) = last.result

\* C11 witness: three intervals handed over in descending begin order, the
\* earliest not starting at MIN_INSTANT
C11_Witness ==
    /\ last.op = "construct" /\ last.outcome = "ok" /\ constructed
    /\ Len(last.input) = 3
    /\ last.input[1].begin > last.input[2].begin
    /\ last.input[2].begin > last.input[3].begin
    /\ last.input[3].begin # MIN_CONSUMPTION_TAX_BEGIN
    /\ consumption_taxes[1].begin = MIN_CONSUMPTION_TAX_BEGIN
    /\ consumption_taxes[3].end = MAX_CONSUMPTION_TAX_END

\* C12: in every reachable state the managed list is sorted strictly
\* ascending by begin.
C12_SortedByBegin ==
    \A i \in 1..(Len(consumption_taxes) - 1) :
        consumption_taxes[i].begin < consumption_taxes[i + 1].begin

\* C13: remove(id) on a managed list with one element fails with CannotEmpty
\* whether or not id is the id of that element, and leaves the list
\* unchanged.
C13_RemoveLastOne ==
    (last.op = "remove" /\ Len(last.before) = 1) =>
        /\ last.outcome = "CannotEmpty"
        /\ consumption_taxes = last.before

\* C13 witness: the only interval's id was not given and the call failed
\* with CannotEmpty, not with NotFound
C13_Witness ==
    /\ last.op = "remove" /\ Len(last.before) = 1
    /\ last.id # last.before[1].id
    /\ last.outcome = "CannotEmpty"
    /\ consumption_taxes = last.before

\* C14: remove(id) on a managed list of two or more elements none of which
\* has that id fails with NotFound and leaves every interval's begin, end,
\* rate and id, and the order of the list, unchanged.
C14_RemoveNotFound ==
    (/\ last.op = "remove"
     /\ Len(last.before) >= 2
     /\ \A i \in 1..Len(last.before) : last.before[i].id # last.id) =>
        /\ last.outcome = "NotFound"
        /\ consumption_taxes = last.before

\* C14 witness: an unknown id on a list that holds two adjacent intervals of
\* one rate, which a merge pass would have collapsed
C14_Witness ==
    /\ last.op = "remove" /\ last.outcome = "NotFound"
    /\ Len(last.before) >= 2
    /\ ~NoAdjacentEqual(last.before)
    /\ consumption_taxes = last.before

\* place (from 1) in taxes of the interval with the given id, 0 if none
PlaceOfId(taxes, id) ==
    IF \E i \in 1..Len(taxes) : taxes[i].id = id
    THEN CHOOSE i \in 1..Len(taxes) : taxes[i].id = id
    ELSE 0

\* C15: remove(id) of an interval that is neither first nor last gives the
\* removed span to its successor: before the merge pass the successor's
\* begin is the predecessor's end and the predecessor and all other
\* intervals are unchanged, so after the call every instant of the removed
\* span resolves to the former successor's rate.
C15_RemoveMiddle ==
    (/\ last.op = "remove" /\ last.outcome = "ok"
     /\ 1 < PlaceOfId(last.before, last.id)
     /\ PlaceOfId(last.before, last.id) < Len(last.before)) =>
        LET b == last.before
            u == last.unmerged
            idx == PlaceOfId(b, last.id)
        IN  /\ Len(u) = Len(b) - 1
            /\ \A j \in 1..(idx - 1) : u[j] = b[j]
            /\ u[idx] = [b[idx + 1] EXCEPT !.begin = b[idx - 1].end]
            /\ \A j \in (idx + 1)..Len(u) : u[j] = b[j + 1]
            /\ \A t \in b[idx].begin..(b[idx].end - 1) :
                /\ RateOutcome(consumption_taxes, t) = "ok"
                /\ RateValue(consumption_taxes, t) = b[idx + 1].rate

\* C16: remove(id) of the first interval makes the former second interval
\* begin at MIN_INSTANT, its end and rate unchanged; remove(id) of the last
\* interval makes the former second-to-last interval end at MAX_INSTANT, its
\* begin and rate unchanged; in both cases every other interval is unchanged
\* in the list before the merge pass.
C16_RemoveFirstOrLast ==
    (last.op = "remove" /\ last.outcome = "ok") =>
        LET b == last.before
            u == last.unmerged
            n == Len(b)
            idx == PlaceOfId(b, last.id)
        IN  /\ idx = 1 =>
                /\ Len(u) = n - 1
                /\ u[1] = [b[2] EXCEPT !.begin = MIN_CONSUMPTION_TAX_BEGIN]
                /\ \A j \in 2..(n - 1) : u[j] = b[j + 1]
            /\ idx = n =>
                /\ Len(u) = n - 1
                /\ u[n - 1] = [b[n - 1] EXCEPT !.end = MAX_CONSUMPTION_TAX_END]
                /\ \A j \in 1..(n - 2) : u[j] = b[j]

\* C16 witness: the last of three or more intervals was removed and the one
\* before it, which ended earlier, now ends at MAX_INSTANT
C16_Witness ==
    /\ last.op = "remove" /\ last.outcome = "ok"
    /\ Len(last.before) >= 3
    /\ last.id = last.before[Len(last.before)].id
    /\ last.before[Len(last.before) - 1].end # MAX_CONSUMPTION_TAX_END
    /\ last.unmerged[Len(last.unmerged)].end = MAX_CONSUMPTION_TAX_END
    /\ last.unmerged[Len(last.unmerged)].begin
        = last.before[Len(last.before) - 1].begin

\* C17: modify_rate(id, new_rate) with new_rate outside [0, 1) fails with
\* InvalidRate whether or not an interval with that id exists, and leaves
\* every managed interval's begin, end, rate and id unchanged.
C17_ModifyInvalidRate ==
    (/\ last.op = "modify_rate"
     /\ (last.renewal < MIN_CONSUMPTION_TAX_RATE
            \/ MAX_CONSUMPTION_TAX_RATE <= last.renewal)) =>
        /\ last.outcome = "InvalidRate"
        /\ consumption_taxes = last.before

\* C17 witness: the rate 1.0 with an id that no interval has was answered
\* with InvalidRate, not with NotFound
C17_Witness ==
    /\ last.op = "modify_rate"
    /\ last.renewal = MAX_CONSUMPTION_TAX_RATE
    /\ PlaceOfId(last.before, last.id) = 0
    /\ last.outcome = "InvalidRate"
    /\ consumption_taxes = last.before

\* C18: modify_rate(id, new_rate) with a valid new_rate and an id that
\* matches no managed interval fails with NotFound and leaves the managed
\* list unchanged; no merge pass is run.
C18_ModifyNotFound ==
    (/\ last.op = "modify_rate"
     /\ MIN_CONSUMPTION_TAX_RATE <= last.renewal
     /\ last.renewal < MAX_CONSUMPTION_TAX_RATE
     /\ \A i \in 1..Len(last.before) : last.before[i].id # last.id) =>
        /\ last.outcome = "NotFound"
        /\ consumption_taxes = last.before

\* C18 witness: an unknown id on a list that holds two adjacent intervals of
\* one rate, which a merge pass would have collapsed
C18_Witness ==
    /\ last.op = "modify_rate" /\ last.outcome = "NotFound"
    /\ ~NoAdjacentEqual(last.before)
    /\ consumption_taxes = last.before

\* how many of the neighbours of taxes[idx] carry the given rate
NeighboursAtRate(taxes, idx, rate) ==
    Cardinality({j \in {idx - 1, idx + 1} \cap (1..Len(taxes)) :
                    taxes[j].rate = rate})

\* C19: modify_rate(id, new_rate) with a valid new_rate and an existing id
\* changes only the target's rate and then merges: on a list with no
\* adjacent equal rates the length drops by exactly the number of the
\* target's neighbours whose rate is new_rate (0, 1 or 2), and when it drops
\* by 0 every interval keeps its begin, end and id.
C19_ModifyThenMerge ==
    (last.op = "modify_rate" /\ last.outcome = "ok") =>
        LET b == last.before
            idx == PlaceOfId(b, last.id)
            drop == NeighboursAtRate(b, idx, last.renewal)
        IN  /\ idx > 0
            /\ last.unmerged = [b EXCEPT ![idx].rate = last.renewal]
            /\ Spans(consumption_taxes) = Spans(last.result)
            /\ NoAdjacentEqual(b) =>
                /\ Len(last.result) = Len(b) - drop
                /\ drop = 0 =>
                    \A i \in 1..Len(b) :
                        /\ last.result[i].begin = b[i].begin
                        /\ last.result[i].end = b[i].end
                        /\ last.result[i].id = b[i].id
                        /\ last.result[i].rate
                            = IF i = idx THEN last.renewal ELSE b[i].rate

\* C19 witness: the middle of three intervals of three rates was set to the
\* rate of its left neighbour only, and two intervals are left
C19_Witness ==
    /\ last.op = "modify_rate" /\ last.outcome = "ok"
    /\ Len(last.before) = 3
    /\ last.id = last.before[2].id
    /\ last.renewal = last.before[1].rate
    /\ last.renewal # last.before[3].rate
    /\ last.before[2].rate # last.before[1].rate
    /\ last.before[2].rate # last.before[3].rate
    /\ Len(consumption_taxes) = 2

\* the addition has the begin, end and rate of some interval of the list
MatchesExisting(taxes, addition) ==
    \E i \in 1..Len(taxes) : Span(taxes[i]) = Span(addition)

Partition(taxes) ==
    /\ Gapless(taxes)
    /\ \A i \in 1..Len(taxes) : taxes[i].begin < taxes[i].end

C21_InsertTotal ==
    /\ last.op = "insert" => last.outcome = "ok"
    /\ constructed =>
        \A addition \in Taxes(uuid4(IdsOf(consumption_taxes))) :
            AddOutcome(consumption_taxes, addition) = "ok"

\* C21 witness: an insert into a list with an interval that does not end
\* where the next begins split its container in three and completed
C21_Witness ==
    /\ last.op = "insert" /\ last.outcome = "ok"
    /\ ~Gapless(last.before)
    /\ Len(last.unmerged) = Len(last.before) + 2

\* C22: every managed interval satisfies begin < end in every reachable
\* state.
C22_BeginBeforeEnd ==
    \A i \in 1..Len(consumption_taxes) :
        consumption_taxes[i].begin < consumption_taxes[i].end

\* C23: in every reachable state and for every well-formed addition at most
\* one managed interval contains the addition.
C23_OneContainer ==
    \A addition \in Taxes(0) :
        Cardinality({i \in 1..Len(consumption_taxes) :
                        contains(consumption_taxes[i], addition)}) <= 1

\* places at which a run of consecutive equal rates starts
RunStarts(taxes) ==
    {i \in 1..Len(taxes) : i = 1 \/ taxes[i].rate # taxes[i - 1].rate}

\* last place of the run that starts at place i
RunEnd(taxes, i) ==
    CHOOSE j \in i..Len(taxes) :
        /\ \A k \in i..(j - 1) : taxes[k + 1].rate = taxes[k].rate
        /\ j = Len(taxes) \/ taxes[j + 1].rate # taxes[j].rate

\* place at which the k-th run starts
KthRunStart(taxes, k) ==
    CHOOSE i \in RunStarts(taxes) :
        Cardinality({j \in RunStarts(taxes) : j < i}) = k - 1

FirstContainer(taxes, addition) ==
    IF \E i \in 1..Len(taxes) : Covers(taxes[i], addition)
    THEN CHOOSE i \in 1..Len(taxes) :
            /\ Covers(taxes[i], addition)
            /\ \A j \in 1..(i - 1) : ~Covers(taxes[j], addition)
    ELSE 0

\* C25: when insert splits a containing interval e and produces a left
\* fragment [e.begin, addition.begin), the left fragment carries the id of
\* e, the addition keeps the id its caller gave it, and only the other
\* fragment of the split has a freshly generated id (the list before the
\* merge pass).
C25_SplitKeepsId ==
    (/\ last.op = "insert" /\ last.outcome = "ok"
     /\ FirstContainer(last.before, last.addition) > 0
     /\ last.before[FirstContainer(last.before, last.addition)].begin
            < last.addition.begin) =>
        LET b == last.before
            u == last.unmerged
            a == last.addition
            i == FirstContainer(b, a)
        IN  /\ u[i].id = b[i].id
            /\ u[i + 1].id = a.id
            /\ a.end < b[i].end =>
                u[i + 2].id \notin (IdsOf(b) \cup {a.id})

\* the instants rate_at answers for
Managed == MIN_CONSUMPTION_TAX_BEGIN..(MAX_CONSUMPTION_TAX_END - 1)

\* rate_at(t) gives the same answer (the same rate, or the same error) on
\* the two lists
SameAnswer(left, right, t) ==
    /\ RateOutcome(left, t) = RateOutcome(right, t)
    /\ RateOutcome(left, t) = "ok" => RateValue(left, t) = RateValue(right, t)

\* C26: after a successful insert(addition) rate_at(t) returns addition.rate
\* for every instant t with addition.begin <= t < addition.end.
C26_InsertedRate ==
    (last.op = "insert" /\ last.outcome = "ok") =>
        \A t \in last.addition.begin..(last.addition.end - 1) :
            /\ RateOutcome(consumption_taxes, t) = "ok"
            /\ RateValue(consumption_taxes, t) = last.addition.rate

\* C27: insert(addition) changes the answer of rate_at only inside the
\* addition's span: for every instant t of [MIN_INSTANT, MAX_INSTANT) with
\* t < addition.begin or t >= addition.end, rate_at(t) after the insert
\* equals rate_at(t) before it.
C27_InsertFrame ==
    (last.op = "insert" /\ last.outcome = "ok") =>
        \A t \in Managed :
            (t < last.addition.begin \/ t >= last.addition.end)
                => SameAnswer(last.before, consumption_taxes, t)

\* C28: after a successful modify_rate(id, new_rate) on a target with span
\* [b, e), rate_at(t) returns new_rate for every t with b <= t < e and is
\* unchanged for every other instant of [MIN_INSTANT, MAX_INSTANT).
C28_ModifyFrame ==
    (last.op = "modify_rate" /\ last.outcome = "ok") =>
        LET target == last.before[PlaceOfId(last.before, last.id)]
        IN  \A t \in Managed :
                IF target.begin <= t /\ t < target.end
                THEN /\ RateOutcome(consumption_taxes, t) = "ok"
                     /\ RateValue(consumption_taxes, t) = last.renewal
                ELSE SameAnswer(last.before, consumption_taxes, t)

\* C29: the merge pass of a mutating call does not change what rate_at
\* returns.  When the list handed to the pass is gapless, rate_at(t) over the
\* merged list equals rate_at(t) over the list before the pass for every
\* managed instant t, and the first begin and the last end are the same.
C29_MergeKeepsRates ==
    (last.op \in Mutators /\ last.outcome = "ok" /\ Gapless(last.unmerged)) =>
        /\ \A t \in Managed : SameAnswer(last.unmerged, last.result, t)
        /\ last.result[1].begin = last.unmerged[1].begin
        /\ last.result[Len(last.result)].end
               = last.unmerged[Len(last.unmerged)].end

\* the addition lies strictly inside an interval of the list, at another rate
StrictlyInside(taxes, addition) ==
    \E i \in 1..Len(taxes) :
        /\ taxes[i].begin < addition.begin
        /\ addition.end < taxes[i].end
        /\ addition.rate # taxes[i].rate

====
